---- MODULE Spec2Model ----
(***************************************************************************)
(* Model of the airtime notification-icon scripts:                         *)
(*   generate_notification_icons.py  (procedural drawing, five densities)  *)
(*   create_emoji_silhouettes.py     (download, silhouette, resample)      *)
(*   process_icon_opacity.py         (alpha threshold, in place)           *)
(*   increase_smoke_opacity.py       (alpha boost with backup, in place)   *)
(*                                                                         *)
(* An image is a record [kind, w, h, px]; px carries the RGBA value of the *)
(* image at two sampled positions (the top-left corner and the centre).    *)
(* Every transform of the scripts is per pixel, so a sampled pixel goes    *)
(* through exactly the arithmetic every pixel goes through.  A pixel is a  *)
(* tuple <<r, g, b, a>> of 8-bit channels.                                 *)
(*                                                                         *)
(* Spec      : the four scripts run one after another on one file tree.    *)
(* SpecPixel : the three per-pixel transforms applied to every 8-bit alpha.*)
(***************************************************************************)
EXTENDS Integers, Sequences, FiniteSets, TLC

VARIABLES fs, backups, dirs, backupsDir, script, pc, idx, multiplier, answer,
          exitCode, visited, failures, written, completed, pre, boostRuns,
          runs, atStart, cast, pin, pout, pop, pm

fileVars == <<fs, backups, dirs, backupsDir, script, pc, idx, multiplier, answer,
              exitCode, visited, failures, written, completed, pre, boostRuns,
              runs, atStart, cast>>

pixelVars == <<pin, pout, pop, pm>>

vars == <<fs, backups, dirs, backupsDir, script, pc, idx, multiplier, answer,
          exitCode, visited, failures, written, completed, pre, boostRuns,
          runs, atStart, cast, pin, pout, pop, pm>>

(***************************************************************************)
(* Bounds of the model.                                                    *)
(***************************************************************************)
\* script runs started in one behaviour
MaxRuns == 3

(***************************************************************************)
(* Program constants.                                                      *)
(***************************************************************************)
DENSITIES ==
    << <<"mdpi", 24>>, <<"hdpi", 36>>, <<"xhdpi", 48>>, <<"xxhdpi", 72>>, <<"xxxhdpi", 96>> >>

ICON_NAMES == << "ic_notification_cigarette", "ic_notification_leaf" >>

\* int(0.15 * 255) = int(38.25)
OPACITY_THRESHOLD == (15 * 255) \div 100

\* default of the multiplier prompt, 1.5, as a fraction
DefaultMultiplier == [num |-> 15, den |-> 10]

\* largest value of an 8-bit channel (np.uint8, PIL band)
MaxChannel == 255

\* alpha at and above which a pixel belongs to the cigarette body
BodyAlpha == 240

DensityNames == { DENSITIES[i][1] : i \in 1..Len(DENSITIES) }

IconNames == { ICON_NAMES[i] : i \in 1..Len(ICON_NAMES) }

SizeOf(d) == DENSITIES[CHOOSE i \in 1..Len(DENSITIES) : DENSITIES[i][1] = d][2]

Pos == {"corner", "centre"}

\* coordinates of a sampled position in a size x size image
PosXY(pos, size) == IF pos = "corner" THEN <<0, 0>> ELSE <<size \div 2, size \div 2>>

Min(a, b) == IF a <= b THEN a ELSE b

Max(a, b) == IF a >= b THEN a ELSE b

(***************************************************************************)
(* File contents.  A path holds no file, bytes PIL cannot decode, or a PNG.*)
(***************************************************************************)
Missing == [kind |-> "missing"]

Corrupt == [kind |-> "corrupt"]

Png(size_w, size_h, pixels) == [kind |-> "png", w |-> size_w, h |-> size_h, px |-> pixels]

Exists(f) == f.kind # "missing"

Decodes(f) == f.kind = "png"

(***************************************************************************)
(* Numeric conversions.  A float is kept as an exact fraction num/den with *)
(* den > 0; the multipliers of the model are dyadic (1.5, 0.5, 1.25, ...), *)
(* for which the double-precision product alpha * multiplier is exact.     *)
(***************************************************************************)
\* ndarray.astype(np.uint8) of the float num/den: truncation toward zero.  A
\* value outside 0..255 is undefined in C: the build either wraps it modulo
\* 256 (x86, through a 32-bit integer) or saturates it (ARM).
AsUint8(num, den, mode) ==
    LET t == IF num >= 0 THEN num \div den ELSE -((-num) \div den)
    IN  IF t \in 0..MaxChannel THEN t
        ELSE IF mode = "wrap" THEN t % (MaxChannel + 1)
        ELSE IF t < 0 THEN 0 ELSE MaxChannel

CastModes == {"wrap", "saturate"}

\* np.minimum(255, num/den)
Minimum255(num, den) ==
    IF num >= MaxChannel * den THEN [num |-> MaxChannel, den |-> 1]
    ELSE [num |-> num, den |-> den]

(***************************************************************************)
(* process_icon_opacity.py: the threshold transform.                       *)
(***************************************************************************)
ThresholdAlphaOffByOne(alpha) == IF alpha >= OPACITY_THRESHOLD THEN MaxChannel ELSE 0

\* np.where(alpha >= OPACITY_THRESHOLD + 1, 255, 0)
ThresholdAlpha(alpha) == IF alpha >= OPACITY_THRESHOLD + 1 THEN MaxChannel ELSE 0

\* data[:, :, 3] = alpha_processed : the colour bands are left as read
ThresholdPixel(p) == <<p[1], p[2], p[3], ThresholdAlpha(p[4])>>

(***************************************************************************)
(* increase_smoke_opacity.py: the opacity boost.                           *)
(***************************************************************************)
smoke_mask(alpha) == alpha < BodyAlpha

BoostAlphaRounded(alpha, m, mode) ==
    IF smoke_mask(alpha)
    THEN LET c == Minimum255(alpha * m.num, m.den)
         IN  AsUint8(2 * c.num + c.den, 2 * c.den, mode)
    ELSE AsUint8(alpha, 1, mode)

BoostAlphaUnclamped(alpha, m, mode) ==
    IF smoke_mask(alpha)
    THEN AsUint8(alpha * m.num, m.den, mode)
    ELSE AsUint8(alpha, 1, mode)

\* alpha[smoke_mask] = np.minimum(255, alpha[smoke_mask] * opacity_multiplier)
\* pixels[:, :, 3] = alpha.astype(np.uint8)
BoostAlpha(alpha, m, mode) ==
    IF smoke_mask(alpha)
    THEN LET c == Minimum255(alpha * m.num, m.den)
         IN  AsUint8(c.num, c.den, mode)
    ELSE AsUint8(alpha, 1, mode)

BoostPixelPremultiplies(p, m, mode) ==
    LET a == BoostAlpha(p[4], m, mode)
    IN  <<(p[1] * a) \div MaxChannel, (p[2] * a) \div MaxChannel, (p[3] * a) \div MaxChannel, a>>

\* only band 3 of the pixel array is assigned
BoostPixel(p, m, mode) == <<p[1], p[2], p[3], BoostAlpha(p[4], m, mode)>>

(***************************************************************************)
(* create_emoji_silhouettes.py: silhouette fill and resampling, as PIL     *)
(* computes them.                                                          *)
(***************************************************************************)
\* PIL's DIV255: x / 255 rounded to nearest, in integer arithmetic
DIV255(x) == (((x + 128) \div 256) + (x + 128)) \div 256

\* PIL's BLEND(mask, in1, in2): in1 where the mask is 0, in2 where it is 255
BLEND(mask, in1, in2) == DIV255(in1 * (MaxChannel - mask) + in2 * mask)

\* Image.composite(layer, base, alpha) at one pixel, with layer an RGB image of
\* the fill colour (converted to RGBA, alpha 255) and base (0, 0, 0, 0): every
\* band, the colour bands included, is blended through the mask
CompositePixel(fill, alpha) ==
    << BLEND(alpha, 0, fill), BLEND(alpha, 0, fill), BLEND(alpha, 0, fill),
       BLEND(alpha, 0, MaxChannel) >>

\* Image.putalpha(alpha) at one pixel
PutAlpha(p, alpha) == <<p[1], p[2], p[3], alpha>>

SilhouettePixelKeepsColour(p, fill) == PutAlpha(p, p[4])

\* result = Image.composite(layer, result, alpha); result.putalpha(alpha)
SilhouettePixel(p, fill) == PutAlpha(CompositePixel(fill, p[4]), p[4])

\* RGBA -> RGBa, the premultiplication Image.resize applies before filtering
Premultiply(p) == <<DIV255(p[1] * p[4]), DIV255(p[2] * p[4]), DIV255(p[3] * p[4]), p[4]>>

\* RGBa -> RGBA, applied to the filtered image
Unpremultiply(p) ==
    IF p[4] = 0 \/ p[4] = MaxChannel THEN p
    ELSE << Min(MaxChannel, (MaxChannel * p[1]) \div p[4]),
            Min(MaxChannel, (MaxChannel * p[2]) \div p[4]),
            Min(MaxChannel, (MaxChannel * p[3]) \div p[4]), p[4] >>

\* a sampled pixel through Image.resize(..., LANCZOS): the sample lies in a
\* uniform neighbourhood, which the normalised kernel reproduces, so what
\* changes its value is the premultiplication round trip
ResizePixel(p) == Unpremultiply(Premultiply(p))

ResizeNotSquare(img, size) ==
    Png(size, size - 1, [q \in Pos |-> ResizePixel(img.px[q])])

\* white_result.resize((size, size), Image.Resampling.LANCZOS)
Resize(img, size) ==
    Png(size, size, [q \in Pos |-> ResizePixel(img.px[q])])

(***************************************************************************)
(* generate_notification_icons.py: the procedural drawings.                *)
(***************************************************************************)
White == <<MaxChannel, MaxChannel, MaxChannel, MaxChannel>>

Transparent == <<0, 0, 0, 0>>

\* ImageDraw.rectangle([x0, y0, x1, y1]) covers both corners
InRect(x, y, x0, y0, x1, y1) == x0 <= x /\ x <= x1 /\ y0 <= y /\ y <= y1

\* create_cigarette_icon(size) at pixel (x, y); int(size * 0.6) is (size * 6) \div 10
CigarettePixel(size, x, y) ==
    LET body_width   == (size * 6) \div 10
        body_height  == (size * 2) \div 10
        body_x       == size \div 10
        body_y       == (size - body_height) \div 2
        filter_width == (size * 15) \div 100
        filter_x     == body_x + body_width
        filter_y     == body_y
    IN  IF \/ InRect(x, y, body_x, body_y, body_x + body_width, body_y + body_height)
           \/ InRect(x, y, filter_x, filter_y, filter_x + filter_width, filter_y + body_height)
        THEN White ELSE Transparent

\* create_leaf_icon(size) at pixel (x, y): the ellipse, the triangle above it and
\* the centre vein.  Pixels on the outline of the ellipse and of the triangle
\* follow PIL's rasteriser; the sampled positions are away from both outlines.
LeafPixel(size, x, y) ==
    LET center_x     == size \div 2
        top_y        == (size * 2) \div 10
        bottom_y     == (size * 8) \div 10
        width_at_mid == (size * 5) \div 10
        left_x       == center_x - width_at_mid \div 2
        right_x      == center_x + width_at_mid \div 2
        tip_y        == size \div 10
        stroke_width == Max(1, size \div 24)
        dx2          == 2 * x - (left_x + right_x)
        dy2          == 2 * y - (top_y + bottom_y)
        rx2          == right_x - left_x
        ry2          == bottom_y - top_y
        inEllipse    == dx2 * dx2 * ry2 * ry2 + dy2 * dy2 * rx2 * rx2 <= rx2 * rx2 * ry2 * ry2
        inTriangle   == /\ tip_y <= y /\ y <= top_y
                        /\ (center_x - x) * (top_y - tip_y) <= (y - tip_y) * (center_x - left_x)
                        /\ (x - center_x) * (top_y - tip_y) <= (y - tip_y) * (right_x - center_x)
        onVein       == /\ top_y + (size * 5) \div 100 <= y
                        /\ y <= bottom_y - (size * 5) \div 100
                        /\ 2 * x >= 2 * center_x - stroke_width
                        /\ 2 * x <= 2 * center_x + stroke_width
    IN  IF inEllipse \/ inTriangle \/ onVein THEN White ELSE Transparent

\* icon_func(size): Image.new('RGBA', (size, size), (0, 0, 0, 0)), then the drawing
IconFunc(icon_name, size) ==
    Png(size, size,
        [q \in Pos |->
            IF icon_name = "ic_notification_cigarette"
            THEN CigarettePixel(size, PosXY(q, size)[1], PosXY(q, size)[2])
            ELSE LeafPixel(size, PosXY(q, size)[1], PosXY(q, size)[2])])

(***************************************************************************)
(* The multiplier prompt: float(input(...).strip()).  A line is a sequence *)
(* of characters.  ParseFloat reads optional blanks, an optional sign and  *)
(* decimal digits with at most one point; the lines of the model use no    *)
(* exponent, no "inf"/"nan" and no digit separator.                        *)
(***************************************************************************)
Digits == {"0", "1", "2", "3", "4", "5", "6", "7", "8", "9"}

DigitVal(c) ==
    CASE c = "0" -> 0 [] c = "1" -> 1 [] c = "2" -> 2 [] c = "3" -> 3 [] c = "4" -> 4
      [] c = "5" -> 5 [] c = "6" -> 6 [] c = "7" -> 7 [] c = "8" -> 8 [] c = "9" -> 9

RECURSIVE StripLeft(_)
StripLeft(s) == IF s # <<>> /\ Head(s) = " " THEN StripLeft(Tail(s)) ELSE s

RECURSIVE StripRight(_)
StripRight(s) ==
    IF s # <<>> /\ s[Len(s)] = " " THEN StripRight(SubSeq(s, 1, Len(s) - 1)) ELSE s

\* str.strip()
Strip(s) == StripRight(StripLeft(s))

RECURSIVE DigitsValue(_)
DigitsValue(s) ==
    IF s = <<>> THEN 0 ELSE 10 * DigitsValue(SubSeq(s, 1, Len(s) - 1)) + DigitVal(s[Len(s)])

RECURSIVE Pow10(_)
Pow10(n) == IF n = 0 THEN 1 ELSE 10 * Pow10(n - 1)

\* float(text): [ok |-> TRUE, num, den] for the value num/den, [ok |-> FALSE]
\* where float() raises ValueError
ParseFloat(text) ==
    LET signed   == text # <<>> /\ Head(text) \in {"+", "-"}
        negative == text # <<>> /\ Head(text) = "-"
        body     == IF signed THEN Tail(text) ELSE text
        points   == { i \in 1..Len(body) : body[i] = "." }
        digits   == SelectSeq(body, LAMBDA c : c \in Digits)
        fraction == IF points = {} THEN 0
                    ELSE Len(body) - (CHOOSE i \in points : TRUE)
        wellFormed == /\ \A i \in 1..Len(body) : body[i] \in Digits \cup {"."}
                      /\ Cardinality(points) <= 1
                      /\ digits # <<>>
    IN  IF wellFormed
        THEN [ok |-> TRUE,
              num |-> IF negative THEN -DigitsValue(digits) ELSE DigitsValue(digits),
              den |-> Pow10(fraction)]
        ELSE [ok |-> FALSE]

\* what the terminal can deliver to input(): end of input, or a line
EndOfInput == [eof |-> TRUE]

Line(text) == [eof |-> FALSE, text |-> text]

InputLines ==
    { <<>>, <<"a", "b", "c">>, <<"1", ".", "5">>, <<" ", "2", " ">>, <<"0", ".", "5">>,
      <<"3", ".", "2", "5">>, <<"-", "1">> }

\* further lines, for the per-pixel check of the boost
MoreLines == { <<"1">>, <<"1", ".", "2", "5">>, <<"+", "2", ".", "7", "5">>, <<"1", "0">> }

Stdin == {EndOfInput} \cup { Line(t) : t \in InputLines }

\* the multipliers the prompt can yield
Multipliers ==
    { [num |-> ParseFloat(Strip(t)).num, den |-> ParseFloat(Strip(t)).den] :
        t \in { u \in InputLines \cup MoreLines : ParseFloat(Strip(u)).ok } }
      \cup {DefaultMultiplier}

(***************************************************************************)
(* The file tree and the scripts' runs.                                    *)
(***************************************************************************)
Cigarette == "ic_notification_cigarette"

\* os.path.join(BASE_DIR, f'drawable-{density}', f'{icon_name}.png')
Paths == DensityNames \X IconNames

None == [none |-> TRUE]

Snapshot == [fs |-> fs, backups |-> backups]

\* what a script has saved: the path and the dimensions of the saved image
Saved(d, n, img) == [density |-> d, icon |-> n, w |-> img.w, h |-> img.h]

Stopped == pc \in {"idle", "done", "aborted"}

\* the items of each script's fixed list
Items(s) ==
    CASE s = "generate"   -> Paths
      [] s = "silhouette" -> IconNames
      [] s = "threshold"  -> Paths
      [] s = "boost"      -> DensityNames
      [] OTHER            -> {}

\* images a download can decode to: the sampled pixels are fully transparent,
\* faint, half transparent or opaque, in a colour of the emoji
SourceImages ==
    { Png(72, 72,   [q \in Pos |-> IF q = "corner" THEN <<0, 0, 0, 0>> ELSE <<30, 200, 30, 255>>]),
      Png(160, 120, [q \in Pos |-> IF q = "corner" THEN <<200, 30, 30, 20>> ELSE <<200, 30, 30, 128>>]),
      Png(72, 72,   [q \in Pos |-> IF q = "corner" THEN <<90, 90, 90, 0>> ELSE <<200, 30, 30, 100>>]) }

InitFiles ==
    /\ fs = [p \in Paths |-> Missing]
    /\ backups = [d \in DensityNames |-> Missing]
    /\ dirs = {}
    /\ backupsDir = FALSE
    /\ script = "none"
    /\ pc = "idle"
    /\ idx = 0
    /\ multiplier = None
    /\ answer = None
    /\ exitCode = -1
    /\ visited = {}
    /\ failures = {}
    /\ written = {}
    /\ completed = {}
    /\ pre = None
    /\ boostRuns = 0
    /\ runs = 0
    /\ atStart = None
    /\ cast \in CastModes

Init ==
    /\ InitFiles
    /\ pin = Transparent
    /\ pout = Transparent
    /\ pop = "none"
    /\ pm = None

\* python3 <script>: a new process starts once the previous one has ended
Launch(s) ==
    /\ Stopped
    /\ runs < MaxRuns
    /\ runs' = runs + 1
    /\ script' = s
    /\ pc' = IF s = "boost" THEN "prompt" ELSE "loop"
    /\ idx' = IF s = "boost" THEN 0 ELSE 1
    /\ multiplier' = None
    /\ answer' = None
    /\ exitCode' = -1
    /\ visited' = {}
    /\ failures' = {}
    /\ written' = {}
    /\ completed' = {}
    /\ atStart' = Snapshot
    /\ IF s = "boost" /\ script = "boost"
       THEN UNCHANGED <<pre, boostRuns>>
       ELSE /\ pre' = IF s = "boost" THEN Snapshot ELSE None
            /\ boostRuns' = 0
    /\ UNCHANGED <<fs, backups, dirs, backupsDir, cast>>
    /\ UNCHANGED pixelVars

StartGenerate == Launch("generate")

StartSilhouette == Launch("silhouette")

StartThreshold == Launch("threshold")

StartBoost == Launch("boost")

\* the loop has run its last iteration: main() returns and the process exits 0
LoopEnd(last) ==
    /\ idx' = idx + 1
    /\ pc' = IF idx = last THEN "done" ELSE "loop"
    /\ exitCode' = IF idx = last THEN 0 ELSE exitCode
    /\ boostRuns' = IF idx = last /\ script = "boost" THEN boostRuns + 1 ELSE boostRuns
    /\ UNCHANGED script

\* an exception nobody catches: traceback, exit status 1, the loop is left
Abort ==
    /\ pc' = "aborted"
    /\ exitCode' = 1
    /\ idx' = idx
    /\ boostRuns' = IF script = "boost" THEN boostRuns + 1 ELSE boostRuns
    /\ UNCHANGED script

(***************************************************************************)
(* generate_notification_icons.py, main(): one (icon, density) per step.   *)
(***************************************************************************)
GenerateStep ==
    /\ script = "generate" /\ pc = "loop"
    /\ LET n    == ICON_NAMES[((idx - 1) \div Len(DENSITIES)) + 1]
           k    == ((idx - 1) % Len(DENSITIES)) + 1
           d    == DENSITIES[k][1]
           size == DENSITIES[k][2]
           icon_img == IconFunc(n, size)
       IN  /\ dirs' = dirs \cup {d}
           /\ fs' = [fs EXCEPT ![<<d, n>>] = icon_img]
           /\ written' = written \cup {Saved(d, n, icon_img)}
           /\ visited' = visited \cup {<<d, n>>}
           /\ completed' = IF k = Len(DENSITIES) THEN completed \cup {n} ELSE completed
    /\ LoopEnd(Len(ICON_NAMES) * Len(DENSITIES))
    /\ UNCHANGED <<backups, backupsDir, multiplier, answer, failures, pre, runs,
                   atStart, cast>>
    /\ UNCHANGED pixelVars

(***************************************************************************)
(* create_emoji_silhouettes.py: one download_and_convert call per step.    *)
(***************************************************************************)
\* white_result: the white silhouette of the decoded image
WhiteResult(img) == Png(img.w, img.h, [q \in Pos |-> SilhouettePixel(img.px[q], MaxChannel)])

\* the download fails (non-200 status, or requests.get / Image.open raises): the
\* function prints and returns False, the caller goes on to the next icon
DownloadFails(n) ==
    /\ failures' = failures \cup {n}
    /\ UNCHANGED <<fs, dirs, written, completed>>

\* the download decodes to img: five resized copies of white_result are saved
DownloadConverts(n, img) ==
    /\ dirs' = dirs \cup DensityNames
    /\ fs' = [p \in Paths |->
                IF p[2] = n THEN Resize(WhiteResult(img), SizeOf(p[1])) ELSE fs[p]]
    /\ written' = written \cup
                    { Saved(d, n, Resize(WhiteResult(img), SizeOf(d))) : d \in DensityNames }
    /\ completed' = completed \cup {n}
    /\ UNCHANGED failures

SilhouetteStep ==
    /\ script = "silhouette" /\ pc = "loop"
    /\ LET n == ICON_NAMES[idx]
       IN  /\ \/ DownloadFails(n)
              \/ \E img \in SourceImages : DownloadConverts(n, img)
           /\ visited' = visited \cup {n}
    /\ LoopEnd(Len(ICON_NAMES))
    /\ UNCHANGED <<backups, backupsDir, multiplier, answer, pre, runs, atStart, cast>>
    /\ UNCHANGED pixelVars

(***************************************************************************)
(* process_icon_opacity.py, main(): one (density, icon) per step.          *)
(***************************************************************************)
\* process_image(img_path), for a file PIL decodes
process_image(img) == [img EXCEPT !.px = [q \in Pos |-> ThresholdPixel(img.px[q])]]

ThresholdStep ==
    /\ script = "threshold" /\ pc = "loop"
    /\ LET d == DENSITIES[((idx - 1) \div Len(ICON_NAMES)) + 1][1]
           n == ICON_NAMES[((idx - 1) % Len(ICON_NAMES)) + 1]
           img_path == <<d, n>>
       IN  IF ~Exists(fs[img_path])
           THEN \* 'not found, skipping'; continue
                /\ failures' = failures \cup {img_path}
                /\ visited' = visited \cup {img_path}
                /\ LoopEnd(Len(ICON_NAMES) * Len(DENSITIES))
                /\ UNCHANGED <<fs, written>>
           ELSE IF ~Decodes(fs[img_path])
           THEN \* Image.open raises inside process_image; main() has no handler
                /\ failures' = failures \cup {img_path}
                /\ Abort
                /\ UNCHANGED <<fs, written, visited>>
           ELSE /\ fs' = [fs EXCEPT ![img_path] = process_image(fs[img_path])]
                /\ written' = written \cup {Saved(d, n, process_image(fs[img_path]))}
                /\ visited' = visited \cup {img_path}
                /\ LoopEnd(Len(ICON_NAMES) * Len(DENSITIES))
                /\ UNCHANGED failures
    /\ UNCHANGED <<backups, dirs, backupsDir, multiplier, answer, completed, pre, runs,
                   atStart, cast>>
    /\ UNCHANGED pixelVars

(***************************************************************************)
(* increase_smoke_opacity.py, main(): the prompt, then one density per     *)
(* step.                                                                   *)
(***************************************************************************)
BoostPrompt ==
    /\ script = "boost" /\ pc = "prompt"
    /\ \E in \in Stdin :
        /\ answer' = in
        /\ IF in.eof
           THEN \* input() raises EOFError, which 'except ValueError' lets through
                /\ Abort
                /\ UNCHANGED multiplier
           ELSE LET parsed == ParseFloat(Strip(in.text))
                IN  /\ multiplier' = IF parsed.ok
                                     THEN [num |-> parsed.num, den |-> parsed.den]
                                     ELSE DefaultMultiplier
                    /\ pc' = "loop"
                    /\ idx' = 1
                    /\ UNCHANGED <<script, exitCode, boostRuns>>
    /\ UNCHANGED <<fs, backups, dirs, backupsDir, visited, failures, written, completed,
                   pre, runs, atStart, cast>>
    /\ UNCHANGED pixelVars

\* increase_smoke_opacity(input_path, output_path, opacity_multiplier), for a file
\* PIL decodes
increase_smoke_opacity(img, m, mode) ==
    [img EXCEPT !.px = [q \in Pos |-> BoostPixel(img.px[q], m, mode)]]

\* shutil.copy2(icon_path, backup_path) unless the backup exists
BackupOnce(backup, icon) == IF ~Exists(backup) THEN icon ELSE backup

BoostStep ==
    /\ script = "boost" /\ pc = "loop"
    /\ LET d == DENSITIES[idx][1]
           icon_path == <<d, Cigarette>>
       IN  IF Exists(fs[icon_path])
           THEN /\ backupsDir' = TRUE
                /\ backups' = [backups EXCEPT ![d] = BackupOnce(backups[d], fs[icon_path])]
                /\ IF Decodes(fs[icon_path])
                   THEN /\ fs' = [fs EXCEPT ![icon_path] =
                                     increase_smoke_opacity(fs[icon_path], multiplier, cast)]
                        /\ written' = written \cup
                             {Saved(d, Cigarette,
                                    increase_smoke_opacity(fs[icon_path], multiplier, cast))}
                        /\ visited' = visited \cup {d}
                        /\ LoopEnd(Len(DENSITIES))
                        /\ UNCHANGED failures
                   ELSE \* Image.open raises; main() has no handler
                        /\ failures' = failures \cup {d}
                        /\ Abort
                        /\ UNCHANGED <<fs, written, visited>>
           ELSE \* 'Warning: ... not found'
                /\ failures' = failures \cup {d}
                /\ visited' = visited \cup {d}
                /\ LoopEnd(Len(DENSITIES))
                /\ UNCHANGED <<fs, backups, backupsDir, written>>
    /\ UNCHANGED <<dirs, multiplier, answer, completed, pre, runs, atStart, cast>>
    /\ UNCHANGED pixelVars

(***************************************************************************)
(* The environment: between two runs an icon file is replaced by bytes PIL *)
(* cannot decode (a truncated copy, a text placeholder); at most one file  *)
(* of the tree is in that state at a time.                                 *)
(***************************************************************************)
DamagePaths == { <<"hdpi", Cigarette>>, <<"xxxhdpi", "ic_notification_leaf">> }

Damage ==
    /\ Stopped
    /\ \A q \in Paths : fs[q] # Corrupt
    /\ \E p \in DamagePaths :
        /\ Decodes(fs[p])
        /\ fs' = [fs EXCEPT ![p] = Corrupt]
    \* the record of the last run no longer describes the tree
    /\ script' = "none"
    /\ pc' = "idle"
    /\ idx' = 0
    /\ multiplier' = None
    /\ answer' = None
    /\ exitCode' = -1
    /\ visited' = {}
    /\ failures' = {}
    /\ written' = {}
    /\ completed' = {}
    /\ pre' = None
    /\ boostRuns' = 0
    /\ atStart' = None
    /\ UNCHANGED <<backups, dirs, backupsDir, runs, cast>>
    /\ UNCHANGED pixelVars

Next ==
    \/ StartGenerate
    \/ StartSilhouette
    \/ StartThreshold
    \/ StartBoost
    \/ GenerateStep
    \/ SilhouetteStep
    \/ ThresholdStep
    \/ BoostPrompt
    \/ BoostStep
    \/ Damage

Spec == Init /\ [][Next]_vars

(***************************************************************************)
(* The per-pixel transforms on their own: one pixel with any 8-bit alpha   *)
(* goes through one of the transforms.  pin is the pixel before, pout the  *)
(* pixel after, pop the transform applied and pm the multiplier of a boost.*)
(***************************************************************************)
\* colours of the input pixel
ColourSamples == { <<0, 0, 0>>, <<MaxChannel, MaxChannel, MaxChannel>>, <<200, 30, 30>> }

PixelInputs == { <<c[1], c[2], c[3], a>> : c \in ColourSamples, a \in 0..MaxChannel }

InitPixel ==
    /\ InitFiles
    /\ pin \in PixelInputs
    /\ pout = pin
    /\ pop = "none"
    /\ pm = None

\* process_image on the pixel
PixelThreshold ==
    /\ pop = "none"
    /\ pout' = ThresholdPixel(pin)
    /\ pop' = "threshold"
    /\ UNCHANGED <<pin, pm>>
    /\ UNCHANGED fileVars

\* increase_smoke_opacity on the pixel, with a multiplier the prompt can yield
PixelBoost ==
    /\ pop = "none"
    /\ \E m \in Multipliers :
        /\ pout' = BoostPixel(pin, m, cast)
        /\ pm' = m
    /\ pop' = "boost"
    /\ UNCHANGED pin
    /\ UNCHANGED fileVars

\* the silhouette fill of download_and_convert on the pixel: black, then white
PixelSilhouette ==
    /\ pop = "none"
    /\ \E variant \in {"black", "white"} :
        /\ pout' = SilhouettePixel(pin, IF variant = "white" THEN MaxChannel ELSE 0)
        /\ pop' = variant
    /\ UNCHANGED <<pin, pm>>
    /\ UNCHANGED fileVars

NextPixel ==
    \/ PixelThreshold
    \/ PixelBoost
    \/ PixelSilhouette

SpecPixel == InitPixel /\ [][NextPixel]_vars

(***************************************************************************)
(* Properties.                                                             *)
(***************************************************************************)
RGB(p) == <<p[1], p[2], p[3]>>

\* C1: the threshold transform writes alpha 255 for every input alpha >= 39 and
\* alpha 0 for every input alpha <= 38, and never any other value.
C1_ThresholdBinary ==
    pop = "threshold" =>
        /\ pout[4] \in {0, 255}
        /\ (pin[4] >= 39 => pout[4] = 255)
        /\ (pin[4] <= 38 => pout[4] = 0)

C1_Witness == pop = "threshold" /\ pin[4] = 39 /\ pout[4] = 255

\* C2 as stated: a pixel with alpha >= 240 keeps its alpha, and a pixel with
\* alpha a < 240 gets exactly min(255, a * m), for every multiplier m.
C2_BoostExact ==
    pop = "boost" =>
        IF pin[4] >= 240 THEN pout[4] = pin[4]
        ELSE IF pin[4] * pm.num >= 255 * pm.den THEN pout[4] = 255
        ELSE pout[4] * pm.den = pin[4] * pm.num

\* C2 amended: a pixel with alpha >= 240 keeps its alpha, and a pixel with alpha
\* a < 240 gets min(255, a * m) with its fraction cut off, for every multiplier
\* m >= 0.
C2_BoostTruncated ==
    pop = "boost" =>
        /\ pin[4] >= 240 => pout[4] = pin[4]
        /\ (pin[4] < 240 /\ pm.num >= 0) =>
              /\ pout[4] \in 0..255
              /\ IF pin[4] * pm.num >= 255 * pm.den THEN pout[4] = 255
                 ELSE /\ pout[4] * pm.den <= pin[4] * pm.num
                      /\ pin[4] * pm.num < (pout[4] + 1) * pm.den

C2_Witness ==
    /\ pop = "boost" /\ pin[4] = 1 /\ pm = DefaultMultiplier /\ pout[4] = 1

\* C5 as stated: the silhouette keeps the source alpha, and every pixel whose
\* source alpha is above zero carries exactly the fill colour (255,255,255 for
\* the white variant, 0,0,0 for the black one).
C5_SilhouetteFill ==
    pop \in {"white", "black"} =>
        /\ pout[4] = pin[4]
        /\ pin[4] > 0 =>
              RGB(pout) = IF pop = "white" THEN <<255, 255, 255>> ELSE <<0, 0, 0>>

C3_BackupOnce ==
    (script = "boost" /\ boostRuns >= 1) =>
        \A d \in DensityNames :
            /\ (Exists(pre.fs[<<d, Cigarette>>]) /\ ~Exists(pre.backups[d])) =>
                  backups[d] = pre.fs[<<d, Cigarette>>]
            /\ Exists(pre.backups[d]) => backups[d] = pre.backups[d]

\* C4 as stated: a run of the silhouette, threshold or boost script in which
\* an item failed ends normally, with exit status 0, after every item of its
\* list was processed or skipped.
C4_FailureIsolation ==
    (script \in {"silhouette", "threshold", "boost"} /\ Stopped /\ failures # {}) =>
        /\ pc = "done"
        /\ exitCode = 0
        /\ visited = Items(script)

\* C7 as stated: whatever the prompt receives, the boost script enters its loop
\* over the densities; a numeric line gives the multiplier it denotes, and any
\* other input, the end of input included, gives 1.5.
C7_PromptFallback ==
    (script = "boost" /\ answer # None) =>
        /\ pc \in {"loop", "done"} \/ (pc = "aborted" /\ idx >= 1)
        /\ multiplier # None
        /\ IF ~answer.eof /\ ParseFloat(Strip(answer.text)).ok
           THEN multiplier.num * ParseFloat(Strip(answer.text)).den
                    = ParseFloat(Strip(answer.text)).num * multiplier.den
           ELSE multiplier.num * 10 = 15 * multiplier.den

\* the five files of icon n, with the edge each density asks for
FiveVariants(n) ==
    { [density |-> "mdpi",    icon |-> n, w |-> 24, h |-> 24],
      [density |-> "hdpi",    icon |-> n, w |-> 36, h |-> 36],
      [density |-> "xhdpi",   icon |-> n, w |-> 48, h |-> 48],
      [density |-> "xxhdpi",  icon |-> n, w |-> 72, h |-> 72],
      [density |-> "xxxhdpi", icon |-> n, w |-> 96, h |-> 96] }

\* C8: for every icon the generator has drawn at all densities, and every icon
\* the silhouette script has downloaded and decoded, the run has written exactly
\* five files, one per density directory, each a square of edge 24, 36, 48, 72,
\* 96, and the directories exist.
C8_FiveVariants ==
    \A n \in completed :
        /\ { e \in written : e.icon = n } = FiveVariants(n)
        /\ \A e \in FiveVariants(n) :
              /\ e.density \in dirs
              /\ Decodes(fs[<<e.density, n>>])
              /\ fs[<<e.density, n>>].w = e.w
              /\ fs[<<e.density, n>>].h = e.h

C8_Witness ==
    /\ script = "silhouette" /\ pc = "done"
    /\ completed = {Cigarette}
    /\ failures = {"ic_notification_leaf"}
    /\ ~Exists(fs[<<"mdpi", "ic_notification_leaf">>])

\* C9: during and after a boost run, every leaf icon is as it was when the run
\* started, and every cigarette icon has the dimensions and the colours it
\* had; an alpha differs only where it was below 240.
C9_BoostFrame ==
    script = "boost" =>
        \A p \in Paths :
            IF p[2] # Cigarette \/ ~Decodes(atStart.fs[p])
            THEN fs[p] = atStart.fs[p]
            ELSE /\ Decodes(fs[p])
                 /\ fs[p].w = atStart.fs[p].w
                 /\ fs[p].h = atStart.fs[p].h
                 /\ \A q \in Pos :
                       /\ RGB(fs[p].px[q]) = RGB(atStart.fs[p].px[q])
                       /\ fs[p].px[q][4] # atStart.fs[p].px[q][4] =>
                             atStart.fs[p].px[q][4] < 240

C9_Witness ==
    /\ script = "boost" /\ pc = "done"
    /\ Decodes(fs[<<"mdpi", "ic_notification_leaf">>])
    /\ Decodes(atStart.fs[<<"mdpi", Cigarette>>])
    /\ atStart.fs[<<"mdpi", Cigarette>>].px["centre"][4] = 128
    /\ fs[<<"mdpi", Cigarette>>].px["centre"] = <<127, 127, 127, 192>>

\* C10: in a boost run with a multiplier >= 1, every alpha of a cigarette icon
\* is within 0..255 and not below its value at the start of the run; an alpha
\* that was >= 240 and an alpha that was 0 are as they were.
C10_BoostMonotone ==
    (script = "boost" /\ multiplier # None /\ multiplier.num >= multiplier.den) =>
        \A d \in DensityNames :
            Decodes(atStart.fs[<<d, Cigarette>>]) =>
                \A q \in Pos :
                    LET old == atStart.fs[<<d, Cigarette>>].px[q][4]
                        new == fs[<<d, Cigarette>>].px[q][4]
                    IN  /\ new \in 0..255
                        /\ new >= old
                        /\ old >= 240 => new = old
                        /\ old = 0 => new = 0

\* the second boost run of a succession has raised an alpha the first had raised
C10_Witness ==
    /\ script = "boost" /\ pc = "done" /\ boostRuns = 2
    /\ multiplier.num >= multiplier.den
    /\ \E d \in DensityNames, q \in Pos :
          /\ Decodes(pre.fs[<<d, Cigarette>>])
          /\ Decodes(atStart.fs[<<d, Cigarette>>])
          /\ pre.fs[<<d, Cigarette>>].px[q][4] < atStart.fs[<<d, Cigarette>>].px[q][4]
          /\ atStart.fs[<<d, Cigarette>>].px[q][4] < fs[<<d, Cigarette>>].px[q][4]

====
